---- MODULE Spec2Model ----
(***************************************************************************)
(* The currency converter screen (app/(tabs)/index.tsx).  The file holds   *)
(* two ConverterScreen components: the theme variant (lines 36-191), which *)
(* keeps an `error` state and never disables its Convert button, and the   *)
(* Alert variant (lines 348-471), which reports through Alert.alert and    *)
(* disables the button while isLoading.                                    *)
(*                                                                         *)
(* Strings that the code parses or formats (amount, result) are tuples of  *)
(* one-character strings; numbers are exact fractions [num, den], den = 0  *)
(* standing for NaN.  Binary floating point is replaced by exact           *)
(* arithmetic, so the inputs below avoid products that fall exactly on a   *)
(* rounding tie.                                                           *)
(*                                                                         *)
(* React re-renders between events: an event handler sees the state of the *)
(* latest render, and the continuation of an async handler keeps the       *)
(* values its closure captured when the button was pressed.                *)
(***************************************************************************)
EXTENDS Integers, Sequences, FiniteSets, TLC

\* ------------------------------------------------------------------ bounds
\* Most handleConvert calls that may be suspended at the fetch at once.
MaxInFlight == 2

\* ------------------------------------------------------- program constants
\* TextInput maxLength
MaxLength == 10

Theme == "theme"
Alert == "alert"
Variants == {Theme, Alert}

\* JavaScript null in a string-valued state
Null == "null"

MsgInvalidAmount == "Please enter a valid positive number"
MsgMissingSelection == "Please select both currencies"
MsgNetwork == "Network response was not ok"
MsgInvalidRate == "Invalid currency rate"
MsgUnknown == "An unknown error occurred"
MsgFailed == "Failed to convert currency"

\* the picker's items, per variant
currencyOptions(v) ==
    IF v = Theme
    THEN {"USD", "LKR", "EUR", "GBP", "JPY", "INR", "AUD", "CAD", "CHF", "CNY"}
    ELSE {"USD", "EUR", "GBP", "JPY", "AUD"}

\* the value the picker reports for its placeholder item ('' in the theme
\* variant, null in the Alert variant: both falsy, both written "")
Placeholder == ""

\* ------------------------------------------------------------------ inputs

\* amount texts the user can type or paste: "", "0", "-5", "1abc", "1.",
\* ".4", "100", "10"
AmountInputs ==
    { <<>>,
      <<"0">>,
      <<"-", "5">>,
      <<"1", "a", "b", "c">>,
      <<"1", ".">>,
      <<".", "4">>,
      <<"1", "0", "0">>,
      <<"1", "0">> }

\* the codes a rates object may list
CodeInputs == {"USD", "EUR"}

\* the items the user picks in the base and in the target picker
BaseInputs == {Placeholder, "USD"}

TargetInputs == {Placeholder, "EUR"}

\* rates a response may carry: 0, 0.85 and 3.333...
RateInputs == { [num |-> 0, den |-> 1], [num |-> 17, den |-> 20], [num |-> 10, den |-> 3] }

NoRates == [c \in {} |-> [num |-> 0, den |-> 1]]

\* the rates object of a decoded response for base USD: empty, USD alone,
\* or USD with an entry for EUR
RateTables ==
    { NoRates, [c \in {"USD"} |-> [num |-> 1, den |-> 1]] }
    \cup { [c \in CodeInputs |-> IF c = "USD" THEN [num |-> 1, den |-> 1] ELSE r] :
             r \in RateInputs }

\* what the awaited fetch / response.json() can deliver to one handler:
\*   throwError  an Error is thrown (fetch rejects, JSON does not parse)
\*   throwValue  something that is not an Error is thrown
\*   notok       response.ok is false
\*   ok          response.ok is true and the body decodes to {rates}
Responses ==
    { [kind |-> "throwError", message |-> "Network request failed", rates |-> NoRates],
      [kind |-> "throwValue", message |-> "", rates |-> NoRates],
      [kind |-> "notok", message |-> "", rates |-> NoRates] }
    \cup { [kind |-> "ok", message |-> "", rates |-> t] : t \in RateTables }

\* ------------------------------------------------------- numbers and text
Digits == {"0", "1", "2", "3", "4", "5", "6", "7", "8", "9"}

DigitChars == <<"0", "1", "2", "3", "4", "5", "6", "7", "8", "9">>

DigitVal(c) == CHOOSE d \in 0..9 : DigitChars[d + 1] = c

RECURSIVE Pow10(_)
Pow10(k) == IF k <= 0 THEN 1 ELSE 10 * Pow10(k - 1)

NaN == [num |-> 0, den |-> 0]

isNaN(x) == x.den = 0

\* first index >= i of s that does not hold a digit
RECURSIVE DigitRun(_, _)
DigitRun(s, i) ==
    IF i <= Len(s) /\ s[i] \in Digits THEN DigitRun(s, i + 1) ELSE i

\* the number written by the digits s[i .. j-1]
RECURSIVE DigitsValue(_, _, _)
DigitsValue(s, i, j) ==
    IF j <= i THEN 0 ELSE 10 * DigitsValue(s, i, j - 1) + DigitVal(s[j - 1])

RECURSIVE SkipWhite(_, _)
SkipWhite(s, i) ==
    IF i <= Len(s) /\ s[i] = " " THEN SkipWhite(s, i + 1) ELSE i

\* parseFloat: the longest prefix sign? (digits (. digits?)? | . digits),
\* after leading blanks; NaN when there is none.  (No exponent part and no
\* "Infinity": the inputs hold neither.)
parseFloat(s) ==
    LET i0     == SkipWhite(s, 1)
        signed == i0 <= Len(s) /\ s[i0] \in {"+", "-"}
        neg    == i0 <= Len(s) /\ s[i0] = "-"
        i1     == IF signed THEN i0 + 1 ELSE i0
        i2     == DigitRun(s, i1)
        hasDot == i2 <= Len(s) /\ s[i2] = "."
        i3     == IF hasDot THEN DigitRun(s, i2 + 1) ELSE i2
        nInt   == i2 - i1
        nFrac  == IF hasDot THEN i3 - (i2 + 1) ELSE 0
        mag    == DigitsValue(s, i1, i2) * Pow10(nFrac)
                    + (IF hasDot THEN DigitsValue(s, i2 + 1, i3) ELSE 0)
    IN  IF nInt = 0 /\ nFrac = 0
        THEN NaN
        ELSE [num |-> IF neg THEN 0 - mag ELSE mag, den |-> Pow10(nFrac)]

\* /^\d+(\.\d+)?$/.test(s)
RegexTest(s) ==
    LET i1 == DigitRun(s, 1)
    IN  /\ i1 > 1
        /\ \/ i1 = Len(s) + 1
           \/ /\ s[i1] = "."
              /\ DigitRun(s, i1 + 1) = Len(s) + 1
              /\ Len(s) >= i1 + 1

Mul(a, b) == [num |-> a.num * b.num, den |-> a.den * b.den]

\* the decimal digits of a natural number
RECURSIVE NatToString(_)
NatToString(n) ==
    IF n < 10 THEN <<DigitChars[n + 1]>>
    ELSE Append(NatToString(n \div 10), DigitChars[(n % 10) + 1])

\* the last f decimal digits of n, zero padded
RECURSIVE FracDigits(_, _)
FracDigits(n, f) ==
    IF f = 0 THEN <<>>
    ELSE Append(FracDigits(n \div 10, f - 1), DigitChars[(n % 10) + 1])

\* toFixed with the fraction written without its leading zeros
toFixedUnpadded(x, f) ==
    LET neg  == x.num < 0
        mag  == IF neg THEN 0 - x.num ELSE x.num
        n    == (2 * mag * Pow10(f) + x.den) \div (2 * x.den)
        body == NatToString(n \div Pow10(f))
                  \o (IF f > 0 THEN <<".">> \o NatToString(n % Pow10(f)) ELSE <<>>)
    IN  IF neg /\ n > 0 THEN <<"-">> \o body ELSE body

\* Number.prototype.toFixed(f): the integer n with n / 10^f nearest to x,
\* the larger one of two, written with exactly f fractional digits
toFixed(x, f) ==
    LET neg  == x.num < 0
        mag  == IF neg THEN 0 - x.num ELSE x.num
        n    == (2 * mag * Pow10(f) + x.den) \div (2 * x.den)
        body == NatToString(n \div Pow10(f))
                  \o (IF f > 0 THEN <<".">> \o FracDigits(n % Pow10(f), f) ELSE <<>>)
    IN  IF neg /\ n > 0 THEN <<"-">> \o body ELSE body

\* ------------------------------------------------------------------- state
VARIABLES
    variant,         \* which ConverterScreen is mounted
    amount,          \* useState('')
    baseCurrency,    \* useState('USD') / useState('')
    targetCurrency,  \* useState('')
    isLoading,       \* useState(false)
    lastResult,      \* useState(null): <<>> is null, <<r>> a ConversionResult
    error,           \* useState(null), theme variant only
    alert,           \* the dialog Alert.alert showed last: <<>> or <<title, message>>
    inflight,        \* the handleConvert calls suspended at their await
    race,            \* history of the calls in flight since the screen was last idle
    keepPrior        \* history: closures also remember lastResult at the press

vars == <<variant, amount, baseCurrency, targetCurrency, isLoading,
          lastResult, error, alert, inflight, race, keepPrior>>

\* race: at most one call was in flight at a time
Alone == "alone"

\* race: two calls were in flight at once, answered in the order of the presses
Overlap == "overlap"

\* race: some call was answered while an earlier one was still suspended
Overtake == "overtake"

ConverterScreen ==
    /\ variant \in Variants
    /\ amount = <<>>
    /\ baseCurrency = IF variant = Theme THEN "USD" ELSE ""
    /\ targetCurrency = ""
    /\ isLoading = FALSE
    /\ lastResult = <<>>
    /\ error = Null
    /\ alert = <<>>
    /\ inflight = <<>>
    /\ race = Alone

Init == ConverterScreen /\ keepPrior = FALSE

InitPrior == ConverterScreen /\ keepPrior = TRUE

\* --------------------------------------------------------------- the form
\* onChangeText={setAmount}, maxLength={10}
setAmount(text) ==
    /\ Len(text) <= MaxLength
    /\ amount' = text
    /\ UNCHANGED <<variant, baseCurrency, targetCurrency, isLoading,
                   lastResult, error, alert, inflight, race, keepPrior>>

\* onValueChange={setBaseCurrency}
setBaseCurrency(code) ==
    /\ code \in currencyOptions(variant) \cup {Placeholder}
    /\ baseCurrency' = code
    /\ UNCHANGED <<variant, amount, targetCurrency, isLoading,
                   lastResult, error, alert, inflight, race, keepPrior>>

\* onValueChange={setTargetCurrency}
setTargetCurrency(code) ==
    /\ code \in currencyOptions(variant) \cup {Placeholder}
    /\ targetCurrency' = code
    /\ UNCHANGED <<variant, amount, baseCurrency, isLoading,
                   lastResult, error, alert, inflight, race, keepPrior>>

\* ------------------------------------------------------------ validation
\* the first test of validateInput
AmountRejected(v, amt) ==
    LET numAmount == parseFloat(amt)
    IN  \/ isNaN(numAmount)
        \/ numAmount.num <= 0
        \/ (v = Theme /\ ~RegexTest(amt))

\* validateInput without the test of the two codes
validateInputAmountOnly(v, amt, base, target) ==
    IF AmountRejected(v, amt)
    THEN [ok |-> FALSE, title |-> "Invalid Input", message |-> MsgInvalidAmount]
    ELSE [ok |-> TRUE, title |-> "", message |-> ""]

\* validateInput, as the message it reports and the boolean it returns
validateInput(v, amt, base, target) ==
    IF AmountRejected(v, amt)
    THEN [ok |-> FALSE, title |-> "Invalid Input", message |-> MsgInvalidAmount]
    ELSE IF base = "" \/ target = ""
    THEN [ok |-> FALSE, title |-> "Missing Selection", message |-> MsgMissingSelection]
    ELSE [ok |-> TRUE, title |-> "", message |-> ""]

\* a Convert button that is never disabled
SubmitAlwaysEnabled == TRUE

\* the Convert button takes a press: disabled={isLoading} in the Alert variant
SubmitEnabled == variant = Alert => ~isLoading

\* ------------------------------------------------------------ conversion
\* the try block without the test of response.ok
TryConvertNoStatusCheck(h, resp) ==
    IF resp.kind = "throwError"
    THEN [ok |-> FALSE, isError |-> TRUE, message |-> resp.message, result |-> <<>>]
    ELSE IF resp.kind = "throwValue"
    THEN [ok |-> FALSE, isError |-> FALSE, message |-> "", result |-> <<>>]
    ELSE IF \/ h.targetCurrency \notin DOMAIN resp.rates
            \/ resp.rates[h.targetCurrency].num = 0
    THEN [ok |-> FALSE, isError |-> TRUE, message |-> MsgInvalidRate, result |-> <<>>]
    ELSE [ok |-> TRUE, isError |-> FALSE, message |-> "",
          result |-> << [amount |-> h.amount,
                         from   |-> h.baseCurrency,
                         to     |-> h.targetCurrency,
                         result |-> toFixed(Mul(parseFloat(h.amount),
                                                resp.rates[h.targetCurrency]), 2)] >>]

\* the try block of handleConvert after the await, for the closure h
TryConvert(h, resp) ==
    IF resp.kind = "throwError"
    THEN [ok |-> FALSE, isError |-> TRUE, message |-> resp.message, result |-> <<>>]
    ELSE IF resp.kind = "throwValue"
    THEN [ok |-> FALSE, isError |-> FALSE, message |-> "", result |-> <<>>]
    ELSE IF resp.kind = "notok"
    THEN [ok |-> FALSE, isError |-> TRUE, message |-> MsgNetwork, result |-> <<>>]
    ELSE IF \/ h.targetCurrency \notin DOMAIN resp.rates
            \/ resp.rates[h.targetCurrency].num = 0
    THEN [ok |-> FALSE, isError |-> TRUE, message |-> MsgInvalidRate, result |-> <<>>]
    ELSE [ok |-> TRUE, isError |-> FALSE, message |-> "",
          result |-> << [amount |-> h.amount,
                         from   |-> h.baseCurrency,
                         to     |-> h.targetCurrency,
                         result |-> toFixed(Mul(parseFloat(h.amount),
                                                resp.rates[h.targetCurrency]), 2)] >>]

\* the message the catch block shows
CatchMessage(v, out) ==
    IF out.isError THEN out.message
    ELSE IF v = Theme THEN MsgUnknown ELSE MsgFailed

Remove(seq, i) == SubSeq(seq, 1, i - 1) \o SubSeq(seq, i + 1, Len(seq))

\* handleConvert up to its await: validation, the loading flag, the request.
\* prior remembers lastResult as it was when the button was pressed.
handleConvert ==
    /\ SubmitEnabled
    /\ LET v == validateInput(variant, amount, baseCurrency, targetCurrency)
       IN  IF ~v.ok
           THEN /\ error' = IF variant = Theme THEN v.message ELSE error
                /\ alert' = IF variant = Alert THEN <<v.title, v.message>> ELSE alert
                /\ UNCHANGED <<isLoading, inflight, race>>
           ELSE /\ Len(inflight) < MaxInFlight
                /\ isLoading' = TRUE
                /\ error' = IF variant = Theme THEN Null ELSE error
                /\ inflight' = Append(inflight,
                                      [amount         |-> amount,
                                       baseCurrency   |-> baseCurrency,
                                       targetCurrency |-> targetCurrency,
                                       prior          |-> IF keepPrior THEN lastResult
                                                          ELSE <<>>])
                /\ race' = IF inflight = <<>> THEN Alone
                            ELSE IF race = Alone THEN Overlap ELSE race
                /\ UNCHANGED alert
    /\ UNCHANGED <<variant, amount, baseCurrency, targetCurrency, lastResult, keepPrior>>

\* a continuation whose catch block also drops the stored result
ResolveDroppingResult(i, resp) ==
    /\ i \in 1..Len(inflight)
    /\ LET out == TryConvert(inflight[i], resp)
       IN  /\ lastResult' = IF out.ok THEN out.result ELSE <<>>
           /\ error' = IF ~out.ok /\ variant = Theme
                       THEN CatchMessage(variant, out) ELSE error
           /\ alert' = IF ~out.ok /\ variant = Alert
                       THEN <<"Error", CatchMessage(variant, out)>> ELSE alert
    /\ isLoading' = FALSE
    /\ inflight' = Remove(inflight, i)
    /\ race' = IF i > 1 THEN Overtake ELSE race
    /\ UNCHANGED <<variant, amount, baseCurrency, targetCurrency, keepPrior>>

\* handleConvert from its await to the end of finally, for the i-th
\* suspended call, when its request delivers resp
Resolve(i, resp) ==
    /\ i \in 1..Len(inflight)
    /\ LET out == TryConvert(inflight[i], resp)
       IN  /\ lastResult' = IF out.ok THEN out.result ELSE lastResult
           /\ error' = IF ~out.ok /\ variant = Theme
                       THEN CatchMessage(variant, out) ELSE error
           /\ alert' = IF ~out.ok /\ variant = Alert
                       THEN <<"Error", CatchMessage(variant, out)>> ELSE alert
    /\ isLoading' = FALSE
    /\ inflight' = Remove(inflight, i)
    /\ race' = IF i > 1 THEN Overtake ELSE race
    /\ UNCHANGED <<variant, amount, baseCurrency, targetCurrency, keepPrior>>

Next ==
    \/ \E text \in AmountInputs : setAmount(text)
    \/ \E code \in BaseInputs : setBaseCurrency(code)
    \/ \E code \in TargetInputs : setTargetCurrency(code)
    \/ handleConvert
    \/ \E i \in 1..MaxInFlight : \E resp \in Responses : Resolve(i, resp)

Spec == Init /\ [][Next]_vars

SpecPrior == InitPrior /\ [][Next]_vars

\* ------------------------------------------------------------- properties
\* the message the screen shows the user: the error text in the theme
\* variant, the message of the last dialog in the Alert variant
Shown == IF variant = Theme THEN error
         ELSE IF alert = <<>> THEN Null ELSE alert[2]

\* an amount text the specification calls invalid
InvalidAmountText(amt) ==
    \/ ~RegexTest(amt)
    \/ isNaN(parseFloat(amt))
    \/ parseFloat(amt).num <= 0

\* resp gives the closure h a usable rate
Usable(h, resp) ==
    /\ resp.kind = "ok"
    /\ h.targetCurrency \in DOMAIN resp.rates
    /\ resp.rates[h.targetCurrency].num # 0

\* C1: a press with an amount text that fails the pattern, or parses to NaN
\* or to a value <= 0, shows the invalid-amount message and issues no
\* request, in both variants.
C1_InvalidAmountRejected ==
    [][(handleConvert /\ InvalidAmountText(amount))
          => (inflight' = inflight /\ Shown' = MsgInvalidAmount)]_vars

\* C2 as claimed: a press with an empty base or target code shows the
\* missing-selection message and issues no request, whatever the amount is.
C2_MissingSelectionAlways ==
    [][(handleConvert /\ (baseCurrency = "" \/ targetCurrency = ""))
          => (inflight' = inflight /\ Shown' = MsgMissingSelection)]_vars

\* C2 amended: a press with an empty base or target code issues no request
\* and leaves the loading flag alone; it shows the missing-selection message
\* when the amount passes the variant's amount test and the invalid-amount
\* message otherwise.
C2_MissingSelectionAfterAmount ==
    [][(handleConvert /\ (baseCurrency = "" \/ targetCurrency = ""))
          => /\ inflight' = inflight
             /\ isLoading' = isLoading
             /\ Shown' = IF \/ isNaN(parseFloat(amount))
                            \/ parseFloat(amount).num <= 0
                            \/ (variant = Theme /\ ~RegexTest(amount))
                         THEN MsgInvalidAmount
                         ELSE MsgMissingSelection]_vars

\* a press with a good amount and no target was rejected for the selection
C2_Witness ==
    /\ Shown = MsgMissingSelection
    /\ ~InvalidAmountText(amount)
    /\ targetCurrency = ""
    /\ inflight = <<>>
    /\ ~isLoading

\* C3: the stored ConversionResult is null or has non-empty codes and an
\* amount text that matches the pattern and parses to a value > 0.
C3_ResultWellFormed ==
    \/ lastResult = <<>>
    \/ /\ lastResult[1].from # ""
       /\ lastResult[1].to # ""
       /\ ~InvalidAmountText(lastResult[1].amount)

\* C4: in the theme variant, when a call resolves with a usable rate, the
\* error is null and the loading flag is false once the call has finished.
C4_SuccessClearsError ==
    [][\A i \in 1..Len(inflight) : \A resp \in Responses :
          (variant = Theme /\ inflight' # inflight
               /\ Usable(inflight[i], resp) /\ Resolve(i, resp))
             => (error' = Null /\ isLoading' = FALSE)]_vars

\* C5: a response with a non-success status ends the call with the network
\* message shown to the user and the loading flag false.
C5_NotOkFails ==
    [][\A i \in 1..Len(inflight) : \A resp \in Responses :
          (inflight' # inflight /\ resp.kind = "notok" /\ Resolve(i, resp))
             => /\ Shown' = MsgNetwork
                /\ variant = Alert => alert' = <<"Error", MsgNetwork>>
                /\ isLoading' = FALSE
                /\ lastResult' = lastResult]_vars

\* a call has just failed on a non-success status
C5_Witness ==
    /\ Shown = MsgNetwork
    /\ ~isLoading
    /\ inflight = <<>>

\* C6: when the decoded response has no rate entry for the target, the call
\* fails with the invalid-rate message and lastResult is what it was when the
\* button was pressed.
C6_MissingRateKeepsPriorResult ==
    [][\A i \in 1..Len(inflight) : \A resp \in Responses :
          (/\ inflight' # inflight
           /\ resp.kind = "ok"
           /\ inflight[i].targetCurrency \notin DOMAIN resp.rates
           /\ Resolve(i, resp))
             => /\ Shown' = MsgInvalidRate
                /\ lastResult' = inflight[i].prior]_vars

\* C7: in the Alert variant at most one request is outstanding.
C7_OneRequestAtATime == variant = Alert => Len(inflight) <= 1

\* the Alert variant has a request outstanding and its button is disabled,
\* with a form that would pass validation
C7_Witness ==
    /\ variant = Alert
    /\ Len(inflight) = 1
    /\ isLoading
    /\ ~SubmitEnabled
    /\ validateInput(variant, amount, baseCurrency, targetCurrency).ok

\* text is digits, a point and exactly two digits
TwoFractionDigits(text) ==
    /\ Len(text) >= 4
    /\ text[Len(text) - 2] = "."
    /\ \A k \in (1..Len(text)) \ {Len(text) - 2} : text[k] \in Digits

Abs(n) == IF n < 0 THEN 0 - n ELSE n

\* the number text reads as is within half a hundredth of x
NearestHundredth(text, x) ==
    LET r == parseFloat(text)
    IN  /\ ~isNaN(r)
        /\ 200 * Abs(r.num * x.den - x.num * r.den) <= r.den * x.den

\* C8: a call that resolves with a usable rate stores the amount text and
\* the codes of the press, and amount * rate rounded to two fractional
\* digits; "100" at 0.85 gives "85.00" and "10" at 3.333... gives "33.33".
C8_ResultStored ==
    [][\A i \in 1..Len(inflight) : \A resp \in Responses :
          (inflight' # inflight /\ Usable(inflight[i], resp) /\ Resolve(i, resp))
             => LET h    == inflight[i]
                    rate == resp.rates[h.targetCurrency]
                    r    == lastResult'[1]
                IN  /\ Len(lastResult') = 1
                    /\ r.amount = h.amount
                    /\ r.from = h.baseCurrency
                    /\ r.to = h.targetCurrency
                    /\ TwoFractionDigits(r.result)
                    /\ NearestHundredth(r.result, Mul(parseFloat(h.amount), rate))
                    /\ (h.amount = <<"1", "0", "0">> /\ rate = [num |-> 17, den |-> 20])
                          => r.result = <<"8", "5", ".", "0", "0">>
                    /\ (h.amount = <<"1", "0">> /\ rate = [num |-> 10, den |-> 3])
                          => r.result = <<"3", "3", ".", "3", "3">>]_vars

\* "10" was converted at 3.333... after the form had been edited
C8_Witness ==
    /\ lastResult # <<>>
    /\ lastResult[1].amount = <<"1", "0">>
    /\ lastResult[1].result = <<"3", "3", ".", "3", "3">>
    /\ amount # <<"1", "0">>
    /\ targetCurrency = ""

\* the message a failing response leaves, as the specification names them
FailureMessage(resp) ==
    IF resp.kind = "notok" THEN MsgNetwork
    ELSE IF resp.kind = "ok" THEN MsgInvalidRate
    ELSE IF resp.kind = "throwError" THEN resp.message
    ELSE IF variant = Theme THEN MsgUnknown ELSE MsgFailed

C10_LoadingIffOutstanding == isLoading <=> (inflight # <<>>)

====
